---------------------------- MODULE Spec2Model ----------------------------
(***************************************************************************)
(* A model of relr-unpack: the RELR decoder (src/src/packer.cc) and the    *)
(* ELF rewriting engine that splices the decoded relocations back into a   *)
(* shared object (src/src/elf_file.cc).                                    *)
(*                                                                         *)
(* Widths.  The code is a template over ELF32_traits / ELF64_traits, whose *)
(* address words are 4 and 8 bytes wide.  TLC's integers are 32-bit signed *)
(* and cannot hold 2^32, so the model instantiates the same template at    *)
(* AddrBytes = 2 (16-bit words): every sizeof() keeps its proportion to    *)
(* the address word and all unsigned arithmetic wraps modulo 2^WordBits.   *)
(*                                                                         *)
(* Specifications.  SpecCodec runs the decoder on packed streams,          *)
(* SpecConvert the two record conversions, SpecResize calls ResizeSection  *)
(* on loaded images, and Spec drives one ElfFile object through Load() and *)
(* UnpackRelocations() on well-formed and defective files.  They share the *)
(* variables; each keeps the ones it does not use at their idle values.    *)
(***************************************************************************)
EXTENDS Integers, Sequences, FiniteSets, TLC

VARIABLES
    pc,           \* control state of the run being modelled
    packed,       \* std::vector<Relr> handed to the decoder
    pk_i,         \* the decoder's loop index i (0-based, as in the code)
    base,         \* the decoder's running base
    relocations,  \* std::vector<Rela> the decoder appends to
    source,       \* how the input of the run was produced
    rel_array,        \* the Rel array handed to ConvertRelArrayToRelaVector
    rel_relocations,  \* std::vector<Rel> ConvertRelaVectorToRelVector fills
    cv_i,             \* records the conversion loop in progress has consumed
    elf,              \* the image libelf holds in memory
    hist,             \* the ResizeSection calls made so far, with the image before each
    this,             \* the ElfFile object: elf_, the three sections, the record type
    file,             \* the file behind fd_, and what libelf did to it
    section_data,     \* const void* section_data of UnpackTypedRelocations
    dynamics,         \* std::vector<Dyn> dynamics of UnpackTypedRelocations
    calls             \* the calls of Load() and UnpackRelocations() so far

codecVars == <<packed, pk_i, base>>

convertVars == <<rel_array, rel_relocations, cv_i>>

imageVars == <<elf, hist>>

unpackVars == <<this, file, section_data, dynamics, calls>>

vars == <<pc, packed, pk_i, base, relocations, source,
          rel_array, rel_relocations, cv_i, elf, hist,
          this, file, section_data, dynamics, calls>>

\* The parts of the state a specification does not use stay at these values.
CodecIdle == packed = <<>> /\ pk_i = 0 /\ base = 0

ConvertIdle == rel_array = <<>> /\ rel_relocations = <<>> /\ cv_i = 0

ImageIdle == elf = <<>> /\ hist = <<>>

UnpackIdle ==
    /\ this = <<>> /\ file = <<>> /\ section_data = <<>>
    /\ dynamics = <<>> /\ calls = <<>>

---------------------------------------------------------------------------
(* Word-size abstraction                                                   *)

AddrBytes == 2

WordBits == 8 * AddrBytes

Modulus == 2 ^ WordBits

R_ARM_RELATIVE == 23

\* Unsigned arithmetic of the address width: x + d with wrap-around.
AddW(x, d) == (x + d) % Modulus

\* Number of address slots one bitmap word covers, in bytes.
SlotBytes == (WordBits - 1) * AddrBytes

---------------------------------------------------------------------------
(* RelocationPacker<ELF>::UnpackRelocations                                *)

\* The record the decoder pushes for an address.
RelativeRela(offset) ==
    [r_offset |-> offset, r_info |-> R_ARM_RELATIVE, r_addend |-> 0]

\* Mutant: the low bit is tested before the shift instead of after it.
RECURSIVE BitmapLoopTestsBeforeShift(_, _, _)
BitmapLoopTestsBeforeShift(entry, offset, out) ==
    IF entry = 0 THEN out
    ELSE BitmapLoopTestsBeforeShift(entry \div 2, AddW(offset, AddrBytes),
             IF entry % 2 # 0 THEN Append(out, RelativeRela(offset)) ELSE out)

\* The inner while loop over one bitmap word: shift first, then test the
\* new low bit; the cursor advances after every shift.
RECURSIVE BitmapLoop(_, _, _)
BitmapLoop(entry, offset, out) ==
    IF entry = 0 THEN out
    ELSE LET e == entry \div 2 IN
         BitmapLoop(e, AddW(offset, AddrBytes),
             IF e % 2 # 0 THEN Append(out, RelativeRela(offset)) ELSE out)

\* Mutant: the literal branch forgets to move the running base.
LiteralEntryKeepsBase(entry, st) ==
    [base |-> st.base,
     relocations |-> Append(st.relocations, RelativeRela(entry))]

\* One iteration of the outer for loop on `entry`, from decoder state
\* st = [base, relocations]: the literal branch, then the bitmap branch.
LiteralEntry(entry, st) ==
    [base |-> AddW(entry, AddrBytes),
     relocations |-> Append(st.relocations, RelativeRela(entry))]

\* Mutant: the base advances by a full word of slots, not word_bits - 1.
BitmapEntryAdvancesFullWord(entry, st) ==
    [base |-> AddW(st.base, WordBits * AddrBytes),
     relocations |-> BitmapLoop(entry, st.base, st.relocations)]

\* Mutant: the base advances by the slots actually emitted, not by the
\* number the word could have covered.
BitmapEntryAdvancesByEmitted(entry, st) ==
    LET out == BitmapLoop(entry, st.base, st.relocations) IN
    [base |-> AddW(st.base, (Len(out) - Len(st.relocations)) * AddrBytes),
     relocations |-> out]

BitmapEntry(entry, st) ==
    [base |-> AddW(st.base, SlotBytes),
     relocations |-> BitmapLoop(entry, st.base, st.relocations)]

DecodeEntry(entry, st) ==
    IF entry % 2 = 0 THEN LiteralEntry(entry, st) ELSE BitmapEntry(entry, st)

\* The whole function: base starts at 0, the output vector is appended to.
RECURSIVE DecodeFrom(_, _, _)
DecodeFrom(words, i, st) ==
    IF i > Len(words) THEN st
    ELSE DecodeFrom(words, i + 1, DecodeEntry(words[i], st))

Packer_UnpackRelocations(words, out) ==
    DecodeFrom(words, 1, [base |-> 0, relocations |-> out]).relocations

---------------------------------------------------------------------------
(* Reference run-length encoder (the inverse the round trip is stated for) *)

InWindow(o, b) == o >= b /\ o - b < SlotBytes /\ (o - b) % AddrBytes = 0

RECURSIVE TakeCount(_, _, _)
TakeCount(s, i, b) ==
    IF i <= Len(s) /\ InWindow(s[i], b) THEN 1 + TakeCount(s, i + 1, b) ELSE 0

RECURSIVE BitmapOf(_, _, _, _)
BitmapOf(s, i, n, b) ==
    IF n = 0 THEN 1
    ELSE 2 ^ (1 + ((s[i] - b) \div AddrBytes)) + BitmapOf(s, i + 1, n - 1, b)

RECURSIVE EncodeFrom(_, _, _, _)
EncodeFrom(s, i, b, inRun) ==
    IF i > Len(s) THEN <<>>
    ELSE IF ~inRun
         THEN <<s[i]>> \o EncodeFrom(s, i + 1, s[i] + AddrBytes, TRUE)
         ELSE LET n == TakeCount(s, i, b) IN
              IF n = 0 THEN EncodeFrom(s, i, b, FALSE)
              ELSE <<BitmapOf(s, i, n, b)>>
                       \o EncodeFrom(s, i + n, b + SlotBytes, TRUE)

Encode(s) == EncodeFrom(s, 1, 0, FALSE)

---------------------------------------------------------------------------
(* Inputs of the codec specification                                       *)

MaxPacked == 3

MaxOffsets == 4

\* Sample words: literals (low bit clear) and bitmap words (low bit set).
LiteralSamples ==
    {0, AddrBytes, 2 * AddrBytes, Modulus - 2 * AddrBytes, Modulus - AddrBytes}

BitmapSamples ==
    {1, 3, 5, 2 ^ (WordBits - 1) + 1, 2 ^ (WordBits - 1) + 7, Modulus - 1}

WordSamples == LiteralSamples \cup BitmapSamples

RECURSIVE SeqsUpTo(_, _)
SeqsUpTo(S, n) ==
    IF n = 0 THEN {<<>>}
    ELSE LET shorter == SeqsUpTo(S, n - 1) IN
         shorter \cup {Append(s, w) : s \in {t \in shorter : Len(t) = n - 1}, w \in S}

\* Word-aligned addresses: neighbours, both ends of a bitmap window, the
\* first slot of the next window, a far address, and the top of the space.
AddrPool ==
    {0, AddrBytes, 2 * AddrBytes,
     SlotBytes, SlotBytes + AddrBytes, 2 * SlotBytes + AddrBytes,
     5 * SlotBytes, Modulus - 2 * AddrBytes, Modulus - AddrBytes}

RECURSIVE SortedSeq(_)
SortedSeq(S) ==
    IF S = {} THEN <<>>
    ELSE LET m == CHOOSE x \in S : \A y \in S : x <= y IN
         <<m>> \o SortedSeq(S \ {m})

OffsetSeqs ==
    {SortedSeq(S) : S \in {T \in SUBSET AddrPool : Cardinality(T) <= MaxOffsets}}

InitCodec ==
    /\ UnpackIdle
    /\ pc = "decode"
    /\ pk_i = 0
    /\ base = 0
    /\ relocations = <<>>
    /\ ConvertIdle
    /\ ImageIdle
    /\ \/ \E s \in OffsetSeqs :
             /\ source = [encoded |-> TRUE, offsets |-> s]
             /\ packed = Encode(s)
       \/ \E w \in SeqsUpTo(WordSamples, MaxPacked) :
             /\ source = [encoded |-> FALSE, offsets |-> <<>>]
             /\ packed = w

\* One iteration of the for loop of UnpackRelocations (packer.cc:22-47).
DecoderStep ==
    /\ pc = "decode"
    /\ pk_i < Len(packed)
    /\ LET st == DecodeEntry(packed[pk_i + 1],
                             [base |-> base, relocations |-> relocations]) IN
       /\ base' = st.base
       /\ relocations' = st.relocations
    /\ pk_i' = pk_i + 1
    /\ UNCHANGED <<pc, packed, source>>
    /\ UNCHANGED <<convertVars, imageVars, unpackVars>>

\* The loop condition fails: the function returns.
DecoderReturn ==
    /\ pc = "decode"
    /\ pk_i = Len(packed)
    /\ pc' = "decoded"
    /\ UNCHANGED <<codecVars, relocations, source, convertVars, imageVars, unpackVars>>

NextCodec == DecoderStep \/ DecoderReturn

SpecCodec == InitCodec /\ [][NextCodec]_vars

---------------------------------------------------------------------------
(* Codec claims                                                            *)

Offsets(recs) == [k \in 1..Len(recs) |-> recs[k].r_offset]

\* C3: decoding the reference encoding of a strictly increasing sequence of
\* word-aligned offsets into an empty vector yields records whose r_offset
\* values are exactly that sequence, in order, none extra, missing or twice.
C3_RoundTrip ==
    (pc = "decoded" /\ source.encoded) => Offsets(relocations) = source.offsets

C3_Witness ==
    /\ pc = "decoded"
    /\ source.encoded
    /\ Len(source.offsets) = MaxOffsets
    /\ Len(packed) >= 3
    /\ \E k \in 1..Len(packed) : packed[k] % 2 = 1 /\ packed[k] > 1

\* The records a bitmap word stands for, computed from its bit positions.
RECURSIVE BitmapRecords(_, _, _)
BitmapRecords(a, bitmap, k) ==
    IF k > WordBits - 1 THEN <<>>
    ELSE (IF (bitmap \div (2 ^ k)) % 2 = 1
          THEN <<RelativeRela(AddW(a, AddrBytes + (k - 1) * AddrBytes))>>
          ELSE <<>>) \o BitmapRecords(a, bitmap, k + 1)

\* C4: decoding [a, bitmap] (a even, bitmap odd) yields the literal record at
\* a, then for each set bit k in 1..word_bits-1, in increasing k, one record
\* at a + word_size + (k-1)*word_size, none for a clear bit; every record has
\* the relative type and addend zero.
C4_Bitmap ==
    (/\ pc = "decoded"
     /\ Len(packed) = 2
     /\ packed[1] % 2 = 0
     /\ packed[2] % 2 = 1)
    => relocations = <<RelativeRela(packed[1])>>
                        \o BitmapRecords(packed[1], packed[2], 1)

C4_Witness ==
    /\ pc = "decoded"
    /\ Len(packed) = 2
    /\ packed[1] = 2 * AddrBytes
    /\ packed[2] = 2 ^ (WordBits - 1) + 7
    /\ Len(relocations) = 4

\* C5: decoding the single literal word a (low bit clear, a = 0 included)
\* appends exactly one record, with r_offset = a, the relative type and
\* addend 0, and leaves the running base at a + word_size.
C5_Literal ==
    (/\ pc = "decoded"
     /\ Len(packed) = 1
     /\ packed[1] % 2 = 0)
    => /\ relocations = <<[r_offset |-> packed[1],
                           r_info |-> R_ARM_RELATIVE,
                           r_addend |-> 0]>>
       /\ base = (packed[1] + AddrBytes) % Modulus

C5_Witness ==
    /\ pc = "decoded"
    /\ packed = <<0>>
    /\ Len(relocations) = 1
    /\ base = AddrBytes

\* Number of records a packed word stands for: one for a literal, one per
\* set bit above the low bit for a bitmap word.
RecordCount(w) ==
    IF w % 2 = 0 THEN 1
    ELSE Cardinality({k \in 1..(WordBits - 1) : (w \div (2 ^ k)) % 2 = 1})

RECURSIVE RecordsBefore(_)
RecordsBefore(n) ==
    IF n = 0 THEN 0 ELSE RecordsBefore(n - 1) + RecordCount(packed[n])

\* Index of the literal that heads the run word i belongs to, 0 if none.
RunLiteral(i) ==
    LET lits == {l \in 1..i : packed[l] % 2 = 0} IN
    IF lits = {} THEN 0 ELSE CHOOSE l \in lits : \A m \in lits : m <= l

\* Distance from address a up to address o in address arithmetic.
Displacement(o, a) == (o - a + Modulus) % Modulus

\* The decoder consumes a bitmap word in this step.
BitmapStep ==
    /\ pc = "decode"
    /\ pk_i' = pk_i + 1
    /\ packed[pk_i + 1] % 2 = 1

RunIncreasing ==
    \A l \in 1..pk_i :
        (packed[l] % 2 = 0) =>
            LET ends == {e \in l..pk_i : RunLiteral(e) = l}
                e == CHOOSE x \in ends : \A y \in ends : y <= x
                first == RecordsBefore(l - 1) + 1
                last == RecordsBefore(e)
            IN /\ last <= Len(relocations)
               /\ \A k \in first..(last - 1) :
                      Displacement(relocations[k].r_offset, packed[l])
                          < Displacement(relocations[k + 1].r_offset, packed[l])

\* C16: consuming a bitmap word advances the running base by exactly
\* (word_bits - 1) * word_size whatever its bits; the j-th bitmap word after
\* a literal a emits records only at offsets in
\* [a + word_size + (j-1)*(word_bits-1)*word_size,
\*  a + word_size + j*(word_bits-1)*word_size), and the offsets of the whole
\* run, taken as distances from a in address arithmetic, strictly increase.
C16_BitmapRun ==
    /\ [](pc \in {"decode", "decoded"} => RunIncreasing)
    /\ [][BitmapStep =>
            /\ base' = AddW(base, SlotBytes)
            /\ LET l == RunLiteral(pk_i + 1) IN
               (l # 0) =>
                   LET j == pk_i + 1 - l
                       lo == AddW(packed[l], AddrBytes + (j - 1) * SlotBytes)
                   IN \A k \in (Len(relocations) + 1)..Len(relocations') :
                          Displacement(relocations'[k].r_offset, lo) < SlotBytes]_vars

C16_Witness ==
    /\ pc = "decoded"
    /\ Len(packed) = 3
    /\ packed[1] = Modulus - 2 * AddrBytes
    /\ packed[2] = 2 ^ (WordBits - 1) + 7
    /\ packed[3] = 5
    /\ Len(relocations) = 5
    /\ base = AddW(packed[1], AddrBytes + 2 * SlotBytes)

---------------------------------------------------------------------------
(* ElfFile<ELF>::ConvertRelArrayToRelaVector / ConvertRelaVectorToRelVector *)

\* Mutant: the widening loop leaves the addend unset; it takes the value
\* of the neighbouring field.
WidenLeavesAddend(rel) ==
    [r_offset |-> rel.r_offset, r_info |-> rel.r_info, r_addend |-> rel.r_info]

\* The body of the widening loop: copy offset and info, addend 0.
Widen(rel) ==
    [r_offset |-> rel.r_offset, r_info |-> rel.r_info, r_addend |-> 0]

\* The body of the narrowing loop: copy offset and info.
Narrow(rela) == [r_offset |-> rela.r_offset, r_info |-> rela.r_info]

\* Mutant: the addend check is compiled out.
AddendCheckOff(rela) == TRUE

\* CHECK(rela.r_addend == 0) of the narrowing loop.
AddendCheck(rela) == rela.r_addend = 0

\* The functions as a whole, as the unpack pipeline calls them.
ConvertRelArrayToRelaVector(array, size, rela_vector) ==
    rela_vector \o [k \in 1..size |-> Widen(array[k])]

NarrowedVector(rela_vector) ==
    [k \in 1..Len(rela_vector) |-> Narrow(rela_vector[k])]

\* fatal: some CHECK of the loop failed and the process was terminated.
ConvertRelaVectorToRelVector(rela_vector) ==
    [fatal |-> \E k \in 1..Len(rela_vector) : ~AddendCheck(rela_vector[k]),
     rel_vector |-> NarrowedVector(rela_vector)]

MaxRecords == 2

RelSamples ==
    [r_offset : {0, AddrBytes}, r_info : {R_ARM_RELATIVE, 2 * 256 + 2}]

RelaSamples ==
    [r_offset : {0, AddrBytes}, r_info : {R_ARM_RELATIVE, 2 * 256 + 2},
     r_addend : {0, AddrBytes, Modulus - 1}]

InitConvert ==
    /\ UnpackIdle
    /\ CodecIdle
    /\ ImageIdle
    /\ rel_relocations = <<>>
    /\ cv_i = 0
    /\ \/ \E a \in SeqsUpTo(RelSamples, MaxRecords) :
             /\ pc = "widen"
             /\ source = [from_rel |-> TRUE]
             /\ rel_array = a
             /\ relocations = <<>>
       \/ \E v \in SeqsUpTo(RelaSamples, MaxRecords) :
             /\ pc = "narrow"
             /\ source = [from_rel |-> FALSE]
             /\ rel_array = <<>>
             /\ relocations = v

\* One iteration of the loop of ConvertRelArrayToRelaVector.
ConvertRelArrayStep ==
    /\ pc = "widen"
    /\ cv_i < Len(rel_array)
    /\ relocations' = Append(relocations, Widen(rel_array[cv_i + 1]))
    /\ cv_i' = cv_i + 1
    /\ UNCHANGED <<pc, source, rel_array, rel_relocations, codecVars, imageVars, unpackVars>>

\* The widening returns; the caller narrows the vector it got.
ConvertRelArrayReturn ==
    /\ pc = "widen"
    /\ cv_i = Len(rel_array)
    /\ pc' = "narrow"
    /\ cv_i' = 0
    /\ UNCHANGED <<source, rel_array, rel_relocations, relocations, codecVars, imageVars, unpackVars>>

\* One iteration of the loop of ConvertRelaVectorToRelVector: the CHECK
\* terminates the process, otherwise the narrowed record is pushed.
ConvertRelaStep ==
    /\ pc = "narrow"
    /\ cv_i < Len(relocations)
    /\ IF AddendCheck(relocations[cv_i + 1])
       THEN /\ rel_relocations' = Append(rel_relocations, Narrow(relocations[cv_i + 1]))
            /\ cv_i' = cv_i + 1
            /\ pc' = pc
       ELSE /\ pc' = "fatal"
            /\ UNCHANGED <<rel_relocations, cv_i>>
    /\ UNCHANGED <<source, rel_array, relocations, codecVars, imageVars, unpackVars>>

ConvertRelaReturn ==
    /\ pc = "narrow"
    /\ cv_i = Len(relocations)
    /\ pc' = "narrowed"
    /\ UNCHANGED <<source, rel_array, relocations, rel_relocations, cv_i, codecVars, imageVars, unpackVars>>

NextConvert ==
    \/ ConvertRelArrayStep
    \/ ConvertRelArrayReturn
    \/ ConvertRelaStep
    \/ ConvertRelaReturn

SpecConvert == InitConvert /\ [][NextConvert]_vars

\* C8: narrowing terminates fatally as soon as a record with a non-zero
\* addend is met and never yields an output for such a vector; when every
\* addend is zero the output has the same length, offsets and infos in the
\* same order, so widening followed by narrowing is the identity.
C8_Narrowing ==
    /\ pc = "fatal" =>
          /\ cv_i < Len(relocations)
          /\ relocations[cv_i + 1].r_addend # 0
    /\ pc \in {"narrow", "narrowed"} =>
          /\ Len(rel_relocations) = cv_i
          /\ \A k \in 1..cv_i :
                /\ relocations[k].r_addend = 0
                /\ rel_relocations[k].r_offset = relocations[k].r_offset
                /\ rel_relocations[k].r_info = relocations[k].r_info
    /\ pc = "narrowed" =>
          /\ cv_i = Len(relocations)
          /\ \A k \in 1..Len(relocations) : relocations[k].r_addend = 0
          /\ source.from_rel => rel_relocations = rel_array

C8_Witness ==
    /\ pc = "narrowed"
    /\ source.from_rel
    /\ Len(rel_array) = MaxRecords
    /\ rel_relocations = rel_array
    /\ rel_array[1] # rel_array[2]

---------------------------------------------------------------------------
(* The ELF image held by libelf                                            *)
(*                                                                         *)
(* elf = [kind, ehdr, e_type, ei_data, e_phoff, e_shoff, phdr, shdr]; ehdr  *)
(* tells whether ELF::getehdr returns a header.  A section                 *)
(* is [name, sh_type, sh_offset, sh_size, sh_addr, sh_addralign, d_size,   *)
(* d_buf]: its header, and its single Elf_Data (d_off is 0 and d_align is  *)
(* sh_addralign, as libelf reads them).  d_buf is the allocated buffer as  *)
(* a sequence of address-sized words: a Dyn is two words (d_tag, d_un), a  *)
(* Rel two (r_offset, r_info), a Rela three (r_offset, r_info, r_addend),  *)
(* a Relr one.  d_size is what the descriptor claims, which ResizeSection  *)
(* changes without reallocating.                                           *)

DynBytes == 2 * AddrBytes

RelBytes == 2 * AddrBytes

RelaBytes == 3 * AddrBytes

RelrBytes == AddrBytes

DT_NULL == 0

DT_SYMTAB == 6

DT_RELA == 7

DT_RELASZ == 8

DT_REL == 17

DT_RELSZ == 18

DT_RELRSZ == 35

DT_RELR == 36

DT_RELRENT == 37

DT_MIPS_RLD_MAP_REL == 1879048245

kPageSize == 4096

kPreserveAlignment == kPageSize

\* A step of the engine either completes or terminates the process
\* (a failed CHECK, LOG(FATAL)); the image is what memory held by then.
Completed(E) == [fatal |-> FALSE, elf |-> E]

Fatal(E) == [fatal |-> TRUE, elf |-> E]

MinOf(S) == CHOOSE x \in S : \A y \in S : x <= y

MaxOf(S) == CHOOSE x \in S : \A y \in S : x >= y

\* Mutant: the sign of hole_size is lost, every hole opens.
ShiftIfBeyondUnsigned(off, hole_start, hole_size) ==
    IF off > hole_start
    THEN AddW(off, IF hole_size < 0 THEN -hole_size ELSE hole_size)
    ELSE off

\* Mutant: a field at the hole start is moved as well.
ShiftIfAtOrBeyond(off, hole_start, hole_size) ==
    IF off >= hole_start THEN AddW(off, hole_size) ELSE off

\* The test every offset field goes through: strictly beyond the hole start.
ShiftIfBeyond(off, hole_start, hole_size) ==
    IF off > hole_start THEN AddW(off, hole_size) ELSE off

AdjustElfHeaderForHole(E, hole_start, hole_size) ==
    [E EXCEPT !.e_phoff = ShiftIfBeyond(E.e_phoff, hole_start, hole_size),
              !.e_shoff = ShiftIfBeyond(E.e_shoff, hole_start, hole_size)]

\* Mutant: the disabled branch is compiled in and moves sh_addr of the
\* sections at or before the hole.
AdjustSectionHeadersForHoleMovesAddr(E, hole_start, hole_size) ==
    [E EXCEPT !.shdr = [k \in 1..Len(E.shdr) |->
        IF E.shdr[k].sh_offset > hole_start
        THEN [E.shdr[k] EXCEPT !.sh_offset = AddW(E.shdr[k].sh_offset, hole_size)]
        ELSE [E.shdr[k] EXCEPT !.sh_addr = AddW(E.shdr[k].sh_addr, -hole_size)]]]

AdjustSectionHeadersForHole(E, hole_start, hole_size) ==
    [E EXCEPT !.shdr = [k \in 1..Len(E.shdr) |->
        [E.shdr[k] EXCEPT !.sh_offset =
            ShiftIfBeyond(E.shdr[k].sh_offset, hole_start, hole_size)]]]

AdjustProgramHeaderFields(phdr, hole_start, hole_size) ==
    [i \in 1..Len(phdr) |->
        IF phdr[i].p_type = "PT_GNU_STACK" THEN phdr[i]
        ELSE [phdr[i] EXCEPT !.p_offset =
                 ShiftIfBeyond(phdr[i].p_offset, hole_start, hole_size)]]

\* The segments the loop of FindLoadSegmentForHole accepts.
LoadSegmentsForHole(phdr, hole_start) ==
    {i \in 1..Len(phdr) :
        /\ phdr[i].p_type = "PT_LOAD"
        /\ phdr[i].p_offset <= hole_start
        /\ AddW(phdr[i].p_offset, phdr[i].p_filesz) >= hole_start}

\* Index of the first accepted segment; 0 stands for LOG(FATAL).
FindLoadSegmentForHole(phdr, hole_start) ==
    IF LoadSegmentsForHole(phdr, hole_start) = {} THEN 0
    ELSE MinOf(LoadSegmentsForHole(phdr, hole_start))

\* Mutant: only p_filesz of the target segment is adjusted.
GrowLoadSegmentFileOnly(ph, hole_size) ==
    [ph EXCEPT !.p_filesz = AddW(ph.p_filesz, hole_size)]

GrowLoadSegment(ph, hole_size) ==
    [ph EXCEPT !.p_filesz = AddW(ph.p_filesz, hole_size),
               !.p_memsz = AddW(ph.p_memsz, hole_size)]

RewriteProgramHeadersForHole(E, hole_start, hole_size) ==
    IF Len(E.phdr) = 0 THEN Fatal(E)
    ELSE LET target == FindLoadSegmentForHole(E.phdr, hole_start) IN
         IF target = 0 THEN Fatal(E)
         ELSE Completed([E EXCEPT !.phdr =
                  AdjustProgramHeaderFields(
                      [E.phdr EXCEPT ![target] = GrowLoadSegment(E.phdr[target], hole_size)],
                      hole_start, hole_size)])

\* The last PT_DYNAMIC program header, 0 if there is none.
LastDynamicProgramHeader(E) ==
    LET D == {i \in 1..Len(E.phdr) : E.phdr[i].p_type = "PT_DYNAMIC"} IN
    IF D = {} THEN 0 ELSE MaxOf(D)

\* The last section whose sh_offset is `off`, 0 if there is none.
LastSectionAtOffset(E, off) ==
    LET S == {k \in 1..Len(E.shdr) : E.shdr[k].sh_offset = off} IN
    IF S = {} THEN 0 ELSE MaxOf(S)

\* Index of the dynamic section; 0 stands for a failed CHECK.
GetDynamicSection(E) ==
    IF Len(E.phdr) = 0 \/ LastDynamicProgramHeader(E) = 0 THEN 0
    ELSE LastSectionAtOffset(E, E.phdr[LastDynamicProgramHeader(E)].p_offset)

\* The first `n` words at data->d_buf.  Reading past the end of the buffer
\* is undefined: those words are whatever follows it in memory, `g`.
ReadWords(buf, n, g) ==
    [k \in 1..n |-> IF k <= Len(buf) THEN buf[k]
                    ELSE IF k % 2 = 1 THEN g.tag ELSE g.val]

\* SetSectionData: CHECK(size == data->d_size), then the section's buffer
\* becomes a fresh copy of `size` bytes of `words`.
SetSectionData(E, sec, words, size, g) ==
    IF size # E.shdr[sec].d_size THEN Fatal(E)
    ELSE Completed([E EXCEPT !.shdr[sec].d_buf =
                       ReadWords(words, size \div AddrBytes, g)])

\* Mutant: DT_RELSZ / DT_RELASZ are left alone.
AdjustDynamicEntryKeepsRelSize(tag, val, hole_size) ==
    IF tag = DT_MIPS_RLD_MAP_REL THEN AddW(val, hole_size) ELSE val

\* The value an entry holds after the loop body of
\* AdjustDynamicSectionForHole.
AdjustDynamicEntry(tag, val, hole_size) ==
    IF tag = DT_RELSZ \/ tag = DT_RELASZ THEN AddW(val, hole_size)
    ELSE IF tag = DT_MIPS_RLD_MAP_REL THEN AddW(val, hole_size)
    ELSE val

\* Number of Dyn entries the vector `dynamics` is built with.
DynamicCount(E, sec) == E.shdr[sec].d_size \div DynBytes

\* Whether building `dynamics` reads past the section's buffer.
ReadsPastBuffer(E, sec) == 2 * DynamicCount(E, sec) > Len(E.shdr[sec].d_buf)

AdjustDynamicSectionForHole(E, dynamic_section, hole_start, hole_size, g) ==
    LET n == DynamicCount(E, dynamic_section)
        copied == ReadWords(E.shdr[dynamic_section].d_buf, 2 * n, g)
        adjusted == [k \in 1..(2 * n) |->
                        IF k % 2 = 1 THEN copied[k]
                        ELSE AdjustDynamicEntry(copied[k - 1], copied[k], hole_size)]
    IN SetSectionData(E, dynamic_section, adjusted, n * DynBytes, g)

\* ResizeSection(elf, section, new_size).
ResizeSection(E, section, new_size, g) ==
    LET sh == E.shdr[section] IN
    IF sh.sh_size = new_size THEN Completed(E)
    ELSE IF sh.d_size # sh.sh_size THEN Fatal(E)
    ELSE IF sh.d_size = 0 THEN Fatal(E)
    ELSE
    LET hole_start == sh.sh_offset
        hole_size == new_size - sh.d_size
        E1 == [E EXCEPT !.shdr[section].d_size = sh.d_size + hole_size,
                        !.shdr[section].sh_size = AddW(sh.sh_size, hole_size)]
        E2 == AdjustElfHeaderForHole(E1, hole_start, hole_size)
        E3 == AdjustSectionHeadersForHole(E2, hole_start, hole_size)
        r4 == RewriteProgramHeadersForHole(E3, hole_start, hole_size)
    IN IF r4.fatal THEN r4
       ELSE IF GetDynamicSection(r4.elf) = 0 THEN Fatal(r4.elf)
       ELSE AdjustDynamicSectionForHole(r4.elf, GetDynamicSection(r4.elf),
                                        hole_start, hole_size, g)

\* Whether that call builds `dynamics` from beyond the dynamic section's
\* buffer (undefined behaviour: garbage entries, or a crash).
ResizeReadsPastBuffer(E, section, new_size) ==
    LET sh == E.shdr[section] IN
    /\ sh.sh_size # new_size /\ sh.d_size = sh.sh_size /\ sh.d_size # 0
    /\ LET hole_start == sh.sh_offset
           hole_size == new_size - sh.d_size
           E1 == [E EXCEPT !.shdr[section].d_size = sh.d_size + hole_size,
                           !.shdr[section].sh_size = AddW(sh.sh_size, hole_size)]
           r4 == RewriteProgramHeadersForHole(
                     AdjustSectionHeadersForHole(
                         AdjustElfHeaderForHole(E1, hole_start, hole_size),
                         hole_start, hole_size),
                     hole_start, hole_size)
       IN /\ ~r4.fatal
          /\ GetDynamicSection(r4.elf) # 0
          /\ ReadsPastBuffer(r4.elf, GetDynamicSection(r4.elf))

---------------------------------------------------------------------------
(* Input images                                                            *)
(*                                                                         *)
(* A shared object with the sections .rel.dyn or .rela.dyn, .relr.dyn,     *)
(* .dynamic and .data, and the program headers PT_PHDR, PT_LOAD (text),    *)
(* PT_LOAD (data), PT_DYNAMIC and PT_GNU_STACK.  The parameters vary what  *)
(* the engine's comparisons depend on:                                     *)
(*   shape    the relocation record shape, "REL" or "RELA";                *)
(*   gap      padding between the end of the first PT_LOAD and .dynamic,   *)
(*            where the second PT_LOAD starts (0: the segments touch);     *)
(*   mips     whether the table carries DT_MIPS_RLD_MAP_REL;               *)
(*   layout   "plain"; "stack": PT_GNU_STACK has an offset after the       *)
(*            sections; "overlap": .relr.dyn starts inside .rel.dyn (the   *)
(*            loader accepts it: Load() does not compare extents);         *)
(*            "high": the section header table sits at the top of the      *)
(*            offset type's range; "split": the text is mapped by two      *)
(*            PT_LOAD segments, the second starting with .relr.dyn;        *)
(*   records  the records .rel.dyn already holds;                          *)
(*   relr     the words of .relr.dyn.                                      *)

\* r_info of a non-relative relocation: R_ARM_GLOB_DAT (21), symbol 2.
GlobDatInfo == 2 * 256 + 21

\* The k-th record the relocation section holds before unpacking, as words.
ExistingRecord(shape, k) ==
    IF shape = "REL" THEN <<64 * AddrBytes + k * AddrBytes, GlobDatInfo>>
    ELSE <<64 * AddrBytes + k * AddrBytes, GlobDatInfo, k>>

RECURSIVE ExistingRecords(_, _)
ExistingRecords(shape, n) ==
    IF n = 0 THEN <<>>
    ELSE ExistingRecords(shape, n - 1) \o ExistingRecord(shape, n)

RecordBytes(shape) == IF shape = "REL" THEN RelBytes ELSE RelaBytes

RelOffset == 16 * AddrBytes

DataBytes == 2 * AddrBytes

PageBias == kPageSize

DynamicWords(P, relsz, relr_off, relrsz) ==
    <<DT_SYMTAB, 8 * AddrBytes,
      DT_RELR, relr_off,
      IF P.shape = "REL" THEN DT_REL ELSE DT_RELA, RelOffset,
      IF P.shape = "REL" THEN DT_RELSZ ELSE DT_RELASZ, relsz,
      DT_RELRSZ, relrsz,
      DT_RELRENT, RelrBytes>>
    \o (IF P.mips THEN <<DT_MIPS_RLD_MAP_REL, 40 * AddrBytes>> ELSE <<>>)
    \o <<DT_NULL, 0>>

Section(name, type, offset, addr, words) ==
    [name |-> name, sh_type |-> type, sh_offset |-> offset,
     sh_size |-> Len(words) * AddrBytes, sh_addr |-> addr,
     sh_addralign |-> AddrBytes,
     d_size |-> Len(words) * AddrBytes, d_buf |-> words]

Segment(type, offset, vaddr, filesz) ==
    [p_type |-> type, p_offset |-> offset, p_vaddr |-> vaddr,
     p_filesz |-> filesz, p_memsz |-> filesz]

Image(P) ==
    LET rel_words == ExistingRecords(P.shape, P.records)
        rel_size == Len(rel_words) * AddrBytes
        relr_off == IF P.layout = "overlap" THEN RelOffset + AddrBytes
                    ELSE RelOffset + rel_size
        relr_size == Len(P.relr) * AddrBytes
        text_end == MaxOf({RelOffset + rel_size, relr_off + relr_size})
        dyn_off == text_end + P.gap
        dyn_words == DynamicWords(P, rel_size, relr_off, relr_size)
        dyn_size == Len(dyn_words) * AddrBytes
        data_off == dyn_off + dyn_size
    IN [kind |-> "ELF_K_ELF", ehdr |-> TRUE,
        e_type |-> "ET_DYN", ei_data |-> "ELFDATA2LSB",
        e_phoff |-> 4 * AddrBytes,
        e_shoff |-> IF P.layout = "high" THEN Modulus - AddrBytes
                    ELSE data_off + DataBytes,
        phdr |-> <<Segment("PT_PHDR", 4 * AddrBytes, 4 * AddrBytes, 10 * AddrBytes)>>
                \o (IF P.layout = "split"
                    THEN <<Segment("PT_LOAD", 0, 0, relr_off),
                           Segment("PT_LOAD", relr_off, relr_off, text_end - relr_off)>>
                    ELSE <<Segment("PT_LOAD", 0, 0, text_end)>>)
                \o <<Segment("PT_LOAD", dyn_off, PageBias + dyn_off, dyn_size + DataBytes),
                   Segment("PT_DYNAMIC", dyn_off, PageBias + dyn_off, dyn_size),
                   Segment("PT_GNU_STACK",
                           IF P.layout = "stack" THEN data_off + DataBytes ELSE 0,
                           0, 0)>>,
        shdr |-> <<Section(IF P.shape = "REL" THEN ".rel.dyn" ELSE ".rela.dyn",
                           IF P.shape = "REL" THEN "SHT_REL" ELSE "SHT_RELA",
                           RelOffset, RelOffset, rel_words),
                   Section(".relr.dyn", "SHT_RELR", relr_off, relr_off, P.relr),
                   Section(".dynamic", "SHT_DYNAMIC", dyn_off, PageBias + dyn_off, dyn_words),
                   Section(".data", "SHT_PROGBITS", data_off, PageBias + data_off,
                           <<0, 0>>)>>]

---------------------------------------------------------------------------
(* The hole-propagation engine on its own: calls of ResizeSection          *)

MaxResizes == 2

ResizeImages ==
    {Image([shape |-> sh, gap |-> gp, mips |-> mp, layout |-> ly,
            records |-> 2, relr |-> <<0, 3, 5>>]) :
        sh \in {"REL", "RELA"}, gp \in {0, 2 * AddrBytes},
        mp \in BOOLEAN, ly \in {"plain", "stack", "overlap", "high", "split"}}

\* What a read past the end of a buffer may find: a (tag, value) pattern.
Garbage == [tag : {DT_NULL, DT_RELSZ}, val : {0, 5}]

NoGarbage == [tag |-> DT_NULL, val |-> 0]

\* Sizes a caller asks for: a record more or less, a word more, nothing,
\* and the size the section had before the first call.
NewSizes(E, H, section) ==
    ({E.shdr[section].sh_size + d : d \in {-2 * AddrBytes, AddrBytes, 2 * AddrBytes}}
        \cup {0}
        \cup {H[k].before.shdr[section].sh_size : k \in 1..Len(H)})
    \cap 0..(Modulus - 1)

InitResize ==
    /\ UnpackIdle
    /\ CodecIdle
    /\ ConvertIdle
    /\ relocations = <<>>
    /\ source = <<>>
    /\ pc = "ready"
    /\ hist = <<>>
    /\ elf \in ResizeImages

Call(section, new_size) ==
    [section |-> section, new_size |-> new_size, before |-> elf]

\* A call of ResizeSection that stays within the buffers it reads.
ResizeSectionCall ==
    /\ pc = "ready"
    /\ Len(hist) < MaxResizes
    /\ \E section \in 1..Len(elf.shdr) :
         \E new_size \in NewSizes(elf, hist, section) :
            /\ ~ResizeReadsPastBuffer(elf, section, new_size)
            /\ LET r == ResizeSection(elf, section, new_size, NoGarbage) IN
               /\ elf' = r.elf
               /\ pc' = IF r.fatal THEN "fatal" ELSE "ready"
            /\ hist' = Append(hist, Call(section, new_size))
    /\ UNCHANGED <<codecVars, convertVars, relocations, source, unpackVars>>

\* A call that builds `dynamics` from beyond the dynamic section's buffer:
\* it goes on with whatever the memory holds, or the read faults.
ResizeSectionCallPastBuffer ==
    /\ pc = "ready"
    /\ Len(hist) < MaxResizes
    /\ \E section \in 1..Len(elf.shdr) :
         \E new_size \in NewSizes(elf, hist, section) :
            /\ ResizeReadsPastBuffer(elf, section, new_size)
            /\ \/ \E g \in Garbage :
                    LET r == ResizeSection(elf, section, new_size, g) IN
                    /\ elf' = r.elf
                    /\ pc' = IF r.fatal THEN "fatal" ELSE "ready"
               \/ /\ elf' = elf
                  /\ pc' = "crashed"
            /\ hist' = Append(hist, Call(section, new_size))
    /\ UNCHANGED <<codecVars, convertVars, relocations, source, unpackVars>>

NextResize == ResizeSectionCall \/ ResizeSectionCallPastBuffer

SpecResize == InitResize /\ [][NextResize]_vars

---------------------------------------------------------------------------
(* Claims about ResizeSection                                              *)

LastCall == hist[Len(hist)]

\* The last call completed and was a real resize (grow or shrink).
LastCallResized ==
    /\ Len(hist) > 0
    /\ pc = "ready"
    /\ LastCall.before.shdr[LastCall.section].sh_size # LastCall.new_size

HoleStart(call) == call.before.shdr[call.section].sh_offset

HoleSize(call) == call.new_size - call.before.shdr[call.section].sh_size

\* Program headers whose sizes differ between two images.
ResizedSegments(B, E) ==
    {i \in 1..Len(B.phdr) :
        \/ E.phdr[i].p_filesz # B.phdr[i].p_filesz
        \/ E.phdr[i].p_memsz # B.phdr[i].p_memsz}

\* The half-open file range of a segment contains the offset.
ContainsOffset(ph, off) == ph.p_offset <= off /\ off < ph.p_offset + ph.p_filesz

\* C1: after a ResizeSection call that completes, every sh_addr and every
\* p_vaddr is unchanged; exactly one program header, a PT_LOAD, has p_filesz
\* and p_memsz changed, each by exactly hole_size, and it is the one that
\* contains the hole; the sizes of every other program header are unchanged.
C1_SegmentInvariant ==
    LastCallResized =>
        LET B == LastCall.before
            h == HoleSize(LastCall)
        IN /\ \A k \in 1..Len(B.shdr) : elf.shdr[k].sh_addr = B.shdr[k].sh_addr
           /\ \A i \in 1..Len(B.phdr) : elf.phdr[i].p_vaddr = B.phdr[i].p_vaddr
           /\ \E i \in 1..Len(B.phdr) :
                 /\ ResizedSegments(B, elf) = {i}
                 /\ B.phdr[i].p_type = "PT_LOAD"
                 /\ elf.phdr[i].p_filesz = AddW(B.phdr[i].p_filesz, h)
                 /\ elf.phdr[i].p_memsz = AddW(B.phdr[i].p_memsz, h)
                 /\ ContainsOffset(B.phdr[i], HoleStart(LastCall))

\* The offset-bearing fields of an image: header offsets, section offsets
\* and sizes, segment offsets and sizes, and the words of the dynamic table.
OffsetFields(E, dynamic_section) ==
    [e_phoff |-> E.e_phoff,
     e_shoff |-> E.e_shoff,
     sections |-> [k \in 1..Len(E.shdr) |->
                      <<E.shdr[k].sh_offset, E.shdr[k].sh_size>>],
     segments |-> [i \in 1..Len(E.phdr) |->
                      <<E.phdr[i].p_offset, E.phdr[i].p_filesz, E.phdr[i].p_memsz>>],
     dynamics |-> E.shdr[dynamic_section].d_buf]

\* Two completed calls, the second resizing the same section back to the
\* size it had before the first.
ResizedAndBack ==
    /\ Len(hist) = 2
    /\ pc = "ready"
    /\ hist[2].section = hist[1].section
    /\ hist[1].new_size # hist[1].before.shdr[hist[1].section].sh_size
    /\ hist[2].new_size = hist[1].before.shdr[hist[1].section].sh_size

\* Every offset field of the image, with the section's own offset left out.
OtherOffsets(E, section) ==
    {E.e_phoff, E.e_shoff}
        \cup {E.shdr[k].sh_offset : k \in 1..Len(E.shdr) \ {section}}
        \cup {E.phdr[i].p_offset : i \in 1..Len(E.phdr)}

\* No other structure starts strictly inside the section's file extent.
NothingStartsInside(E, section) ==
    \A off \in OtherOffsets(E, section) :
        ~(/\ E.shdr[section].sh_offset < off
          /\ off < E.shdr[section].sh_offset + E.shdr[section].sh_size)

\* No offset of the image is within `growth` of the top of the offset type.
NoWrap(E, growth) ==
    \A off \in OtherOffsets(E, 0) : off + growth < Modulus

\* C2: ResizeSection(s, size) followed by ResizeSection(s, original_size)
\* restores every offset-bearing field whenever both calls complete, for
\* grow-then-shrink and for shrink-then-grow.  Stated for the calls that can
\* restore anything at all: s is not the dynamic table itself (a shrink
\* discards its last entries), no other offset field lies strictly inside
\* the file extent of s, and no shifted offset wraps around the offset type.
C2_HoleIdempotence ==
    (/\ ResizedAndBack
     /\ hist[1].section # GetDynamicSection(hist[1].before)
     /\ NothingStartsInside(hist[1].before, hist[1].section)
     /\ NoWrap(hist[1].before, HoleSize(hist[1])))
    => OffsetFields(elf, GetDynamicSection(hist[1].before))
          = OffsetFields(hist[1].before, GetDynamicSection(hist[1].before))

---------------------------------------------------------------------------
(* ElfFile<ELF>::Load                                                      *)
(*                                                                         *)
(* this = [elf_, relocations_section_, relr_section_, dynamic_section_,    *)
(* relocations_type_].  elf_ is the handle elf_begin returned (0: NULL), a *)
(* section pointer is the section's index in the image (0: nullptr).       *)
(* file = [image, begun, updates, truncates]: the contents of the file     *)
(* behind fd_, and how often elf_begin, elf_update and ftruncate ran.      *)

\* The object as main() constructs it: no image, no section recorded.
NewElfFile ==
    [elf_ |-> 0, relocations_section_ |-> 0, relr_section_ |-> 0,
     dynamic_section_ |-> 0, relocations_type_ |-> "NONE"]

\* The last index of a set of indices, 0 (nullptr) if there is none.
LastOf(S) == IF S = {} THEN 0 ELSE MaxOf(S)

\* Mutant: the test of elf_ at the top of Load() is gone.
AlreadyLoadedNever(obj) == FALSE

\* if (elf_) return true;
AlreadyLoaded(obj) == obj.elf_ # 0

\* Mutant: the object type is not looked at.
IsSharedObjectAlways(E) == TRUE

IsSharedObject(E) == E.e_type = "ET_DYN"

DynamicProgramHeaders(E) ==
    {i \in 1..Len(E.phdr) : E.phdr[i].p_type = "PT_DYNAMIC"}

\* What the loop over the sections notes.
HasRelRelocations(E) == \E k \in 1..Len(E.shdr) : E.shdr[k].sh_type = "SHT_REL"

HasRelaRelocations(E) == \E k \in 1..Len(E.shdr) : E.shdr[k].sh_type = "SHT_RELA"

\* Mutant: the relocation section is taken by its type, whatever its name.
FoundRelocationsSectionByType(E) ==
    LastOf({k \in 1..Len(E.shdr) :
               /\ E.shdr[k].sh_type \in {"SHT_REL", "SHT_RELA"}
               /\ E.shdr[k].sh_size > 0})

FoundRelocationsSection(E) ==
    LastOf({k \in 1..Len(E.shdr) :
               /\ E.shdr[k].name \in {".rel.dyn", ".rela.dyn"}
               /\ E.shdr[k].sh_size > 0})

\* relr_section_ is the member itself: it keeps its value when no section
\* has the type.
FoundRelrSection(E, relr_section_) ==
    LET S == {k \in 1..Len(E.shdr) : E.shdr[k].sh_type = "SHT_RELR"} IN
    IF S = {} THEN relr_section_ ELSE MaxOf(S)

FoundDynamicSection(E) ==
    LastSectionAtOffset(E, E.phdr[LastOf(DynamicProgramHeaders(E))].p_offset)

\* CHECK(section_header->sh_addralign <= kPreserveAlignment), and the same
\* for d_align, of every section.
PreservesAlignment(E) ==
    \A k \in 1..Len(E.shdr) : E.shdr[k].sh_addralign <= kPreserveAlignment

\* ret is "true", "false", or "fatal" when a CHECK terminated the process.
Returned(ret, obj) == [ret |-> ret, this |-> obj]

\* Load() on the file contents E, where elf_begin would return `handle`.
Load(obj, E, handle) ==
    IF AlreadyLoaded(obj) THEN Returned("true", obj)
    ELSE IF E.kind # "ELF_K_ELF" THEN Returned("false", obj)
    ELSE IF ~E.ehdr THEN Returned("false", obj)
    ELSE IF ~IsSharedObject(E) THEN Returned("false", obj)
    ELSE IF E.ei_data # "ELFDATA2LSB" THEN Returned("fatal", obj)
    ELSE IF Len(E.phdr) = 0 THEN Returned("fatal", obj)
    ELSE IF Cardinality(DynamicProgramHeaders(E)) # 1 THEN Returned("fatal", obj)
    ELSE IF ~PreservesAlignment(E) THEN Returned("fatal", obj)
    ELSE
    LET noted == [obj EXCEPT !.relr_section_ = FoundRelrSection(E, obj.relr_section_)] IN
    IF FoundDynamicSection(E) = 0 THEN Returned("false", noted)
    ELSE IF /\ FoundRelocationsSection(E) # 0
            /\ ~HasRelRelocations(E) /\ ~HasRelaRelocations(E)
         THEN Returned("false", noted)
    ELSE IF /\ FoundRelocationsSection(E) # 0
            /\ HasRelRelocations(E) /\ HasRelaRelocations(E)
         THEN Returned("false", noted)
    ELSE IF noted.relr_section_ = 0 THEN Returned("false", noted)
    ELSE Returned("true",
                  [elf_ |-> handle,
                   relocations_section_ |-> FoundRelocationsSection(E),
                   relr_section_ |-> noted.relr_section_,
                   dynamic_section_ |-> FoundDynamicSection(E),
                   relocations_type_ |-> IF HasRelRelocations(E) THEN "REL" ELSE "RELA"])

---------------------------------------------------------------------------
(* ElfFile<ELF>::UnpackRelocations, UnpackTypedRelocations and Flush       *)

\* reinterpret_cast of a section buffer to an array of n records, and back.
RelsOfWords(w, n) ==
    [k \in 1..n |-> [r_offset |-> w[2 * k - 1], r_info |-> w[2 * k]]]

RelasOfWords(w, n) ==
    [k \in 1..n |-> [r_offset |-> w[3 * k - 2], r_info |-> w[3 * k - 1],
                     r_addend |-> w[3 * k]]]

DynsOfWords(w, n) ==
    [k \in 1..n |-> [d_tag |-> w[2 * k - 1], d_val |-> w[2 * k]]]

WordsOfRels(v) ==
    [j \in 1..(2 * Len(v)) |->
        IF j % 2 = 1 THEN v[(j + 1) \div 2].r_offset ELSE v[j \div 2].r_info]

WordsOfRelas(v) ==
    [j \in 1..(3 * Len(v)) |->
        IF j % 3 = 1 THEN v[(j + 2) \div 3].r_offset
        ELSE IF j % 3 = 2 THEN v[(j + 1) \div 3].r_info
        ELSE v[j \div 3].r_addend]

WordsOfDyns(v) ==
    [j \in 1..(2 * Len(v)) |->
        IF j % 2 = 1 THEN v[(j + 1) \div 2].d_tag ELSE v[j \div 2].d_val]

\* The first slot with the tag, the last entry left out of the search;
\* Len(dyn) + 1 (dynamics->size()) if there is none.
FindDynamicEntry(tag, dyn) ==
    LET S == {i \in 1..(Len(dyn) - 1) : dyn[i].d_tag = tag} IN
    IF S = {} THEN Len(dyn) + 1 ELSE MinOf(S)

\* dynamics.erase(dynamics.begin() + slot)
Erase(dyn, slot) == SubSeq(dyn, 1, slot - 1) \o SubSeq(dyn, slot + 1, Len(dyn))

\* The three blocks that remove DT_RELRSZ, DT_RELR and DT_RELRENT, in that
\* order; fatal at the first tag that is not found (an empty vector makes
\* the search run off its end, which at() turns into termination).
\* Mutant: a tag that is not found is skipped instead of being fatal.
RECURSIVE EraseTagsSkipsMissing(_, _)
EraseTagsSkipsMissing(dyn, tags) ==
    IF tags = <<>> THEN [fatal |-> FALSE, dynamics |-> dyn]
    ELSE IF Len(dyn) = 0 \/ FindDynamicEntry(Head(tags), dyn) = Len(dyn) + 1
         THEN EraseTagsSkipsMissing(dyn, Tail(tags))
    ELSE EraseTagsSkipsMissing(Erase(dyn, FindDynamicEntry(Head(tags), dyn)), Tail(tags))

RECURSIVE EraseTags(_, _)
EraseTags(dyn, tags) ==
    IF tags = <<>> THEN [fatal |-> FALSE, dynamics |-> dyn]
    ELSE IF Len(dyn) = 0 \/ FindDynamicEntry(Head(tags), dyn) = Len(dyn) + 1
         THEN [fatal |-> TRUE, dynamics |-> dyn]
    ELSE EraseTags(Erase(dyn, FindDynamicEntry(Head(tags), dyn)), Tail(tags))

\* const size_t unpacked_bytes = relocations.size() * relocation_entry_size
UnpackedBytes(rela_vector, relocations_type_) ==
    Len(rela_vector) * (IF relocations_type_ = "REL" THEN RelBytes ELSE RelaBytes)

\* What a pointer into a destroyed vector may be read as: the words the
\* vector held, or those words with their start taken over by the heap's
\* bookkeeping or by the next allocation of that size (`reuse`).
FreedMemory(words, reuse) ==
    {words,
     [k \in 1..Len(words) |-> IF k <= 2 THEN 0 ELSE words[k]],
     [k \in 1..Len(words) |-> IF k <= Len(reuse) THEN reuse[k] ELSE words[k]]}

\* What ResizeSection may do: one outcome, unless it builds `dynamics` from
\* beyond the dynamic section's buffer.
ResizeOutcomes(E, section, new_size) ==
    IF ResizeReadsPastBuffer(E, section, new_size)
    THEN {ResizeSection(E, section, new_size, g) : g \in Garbage} \cup {Fatal(E)}
    ELSE {ResizeSection(E, section, new_size, NoGarbage)}

---------------------------------------------------------------------------
(* Input files of the unpacker                                             *)

\* Ways a file departs from what Load() and the pipeline expect.
Defects ==
    <<"not_elf", "no_ehdr", "not_dyn", "big_endian", "no_pt_dynamic",
      "two_pt_dynamic", "over_aligned", "no_dynamic_section", "no_relr",
      "both_shapes", "no_shape", "no_rel_section", "empty_rel", "no_relrent">>

WithDefect(E, d) ==
    CASE d = "not_elf" -> [E EXCEPT !.kind = "ELF_K_AR"]
      [] d = "no_ehdr" -> [E EXCEPT !.ehdr = FALSE]
      [] d = "not_dyn" -> [E EXCEPT !.e_type = "ET_EXEC"]
      [] d = "big_endian" -> [E EXCEPT !.ei_data = "ELFDATA2MSB"]
      [] d = "no_pt_dynamic" ->
            [E EXCEPT !.phdr = [i \in 1..Len(E.phdr) |->
                IF E.phdr[i].p_type = "PT_DYNAMIC"
                THEN [E.phdr[i] EXCEPT !.p_type = "PT_NULL"] ELSE E.phdr[i]]]
      [] d = "two_pt_dynamic" -> [E EXCEPT !.phdr = Append(E.phdr, E.phdr[4])]
      [] d = "over_aligned" ->
            [E EXCEPT !.shdr[4].sh_addralign = 2 * kPreserveAlignment]
      [] d = "no_dynamic_section" ->
            [E EXCEPT !.phdr = [i \in 1..Len(E.phdr) |->
                IF E.phdr[i].p_type = "PT_DYNAMIC"
                THEN [E.phdr[i] EXCEPT !.p_offset = AddrBytes] ELSE E.phdr[i]]]
      [] d = "no_relr" -> [E EXCEPT !.shdr[2].sh_type = "SHT_PROGBITS"]
      [] d = "both_shapes" ->
            [E EXCEPT !.shdr[4].sh_type =
                IF E.shdr[1].sh_type = "SHT_REL" THEN "SHT_RELA" ELSE "SHT_REL"]
      [] d = "no_shape" -> [E EXCEPT !.shdr[1].sh_type = "SHT_PROGBITS"]
      [] d = "no_rel_section" -> [E EXCEPT !.shdr[1].name = ".rel.plt"]
      [] d = "empty_rel" ->
            [E EXCEPT !.shdr[1].sh_size = 0, !.shdr[1].d_size = 0,
                      !.shdr[1].d_buf = <<>>]
      [] d = "no_relrent" ->
            [E EXCEPT !.shdr[3].d_buf = [k \in 1..Len(E.shdr[3].d_buf) |->
                IF k % 2 = 1 /\ E.shdr[3].d_buf[k] = DT_RELRENT
                THEN DT_SYMTAB ELSE E.shdr[3].d_buf[k]]]

RECURSIVE ApplyDefects(_, _, _)
ApplyDefects(E, D, k) ==
    IF k > Len(Defects) THEN E
    ELSE ApplyDefects(IF Defects[k] \in D THEN WithDefect(E, Defects[k]) ELSE E,
                      D, k + 1)

MaxDefects == 2

DefectSets ==
    {D \in SUBSET {Defects[k] : k \in 1..Len(Defects)} : Cardinality(D) <= MaxDefects}

UnpackImages ==
    {ApplyDefects(Image([shape |-> sh, gap |-> gp, mips |-> mp, layout |-> "plain",
                         records |-> 1, relr |-> rr]), D, 1) :
        sh \in {"REL", "RELA"}, gp \in {0, 2 * AddrBytes}, mp \in BOOLEAN,
        rr \in {<<8>>, <<8, 3>>}, D \in DefectSets}

---------------------------------------------------------------------------
(* The unpacker: one ElfFile object on one file, its methods called        *)

MaxCalls == 3

idleVars == <<pk_i, base, source, rel_array, rel_relocations, cv_i>>

Init ==
    /\ CodecIdle
    /\ ConvertIdle
    /\ relocations = <<>>
    /\ source = <<>>
    /\ elf = <<>>
    /\ hist = <<>>
    /\ pc = "idle"
    /\ this = NewElfFile
    /\ file \in {[image |-> E, begun |-> 0, updates |-> 0, truncates |-> 0] :
                    E \in UnpackImages}
    /\ section_data = <<>>
    /\ dynamics = <<>>
    /\ calls = <<>>

\* The entry of `calls` for a call that starts now: the object before it and
\* after its Load(), what Load() returned, what the call returned
\* ("running" until it does), and the file and the counts at its start.
Called(op, r, ret) ==
    [op |-> op, before |-> this, loaded |-> r.this, load |-> r.ret, ret |-> ret,
     image |-> file.image, resizes |-> Len(hist), updates |-> file.updates]

\* What a call of Load() does to the object, to libelf and to the image.
LoadEffect(r) ==
    /\ this' = r.this
    /\ file' = IF AlreadyLoaded(this) THEN file ELSE [file EXCEPT !.begun = @ + 1]
    /\ elf' = IF AlreadyLoaded(this) \/ r.ret # "true" THEN elf ELSE file.image

Returns(ret) == calls' = [calls EXCEPT ![Len(calls)].ret = ret]

Aborts == pc' = "aborted" /\ Returns("fatal")

\* A call of Load().
LoadCall ==
    /\ pc = "idle"
    /\ Len(calls) < MaxCalls
    /\ LET r == Load(this, file.image, file.begun + 1) IN
       /\ LoadEffect(r)
       /\ calls' = Append(calls, Called("Load", r, r.ret))
       /\ pc' = IF r.ret = "fatal" THEN "aborted" ELSE "idle"
    /\ UNCHANGED <<packed, relocations, hist, section_data, dynamics, idleVars>>

\* UnpackRelocations(): Load(), the early returns, and the copy of the
\* packed section into `packed`.
UnpackRelocations ==
    /\ pc = "idle"
    /\ Len(calls) < MaxCalls
    /\ LET r == Load(this, file.image, file.begun + 1)
           E == IF AlreadyLoaded(this) THEN elf ELSE file.image
       IN
       /\ LoadEffect(r)
       /\ IF r.ret # "true"
          THEN /\ calls' = Append(calls, Called("UnpackRelocations", r, r.ret))
               /\ pc' = IF r.ret = "fatal" THEN "aborted" ELSE "idle"
               /\ packed' = packed
          ELSE IF r.this.relocations_section_ = 0
          THEN /\ calls' = Append(calls, Called("UnpackRelocations", r, "true"))
               /\ pc' = "idle"
               /\ packed' = packed
          ELSE /\ calls' = Append(calls, Called("UnpackRelocations", r, "running"))
               /\ pc' = "typed"
               /\ packed' = ReadWords(E.shdr[r.this.relr_section_].d_buf,
                                      E.shdr[r.this.relr_section_].d_size \div RelrBytes,
                                      NoGarbage)
    /\ UNCHANGED <<relocations, hist, section_data, dynamics, idleVars>>

\* UnpackTypedRelocations: the records the relocation section holds.
ReadRelocations ==
    /\ pc = "typed"
    /\ LET data == elf.shdr[this.relocations_section_] IN
       relocations' =
          IF this.relocations_type_ = "REL"
          THEN ConvertRelArrayToRelaVector(
                   RelsOfWords(data.d_buf, data.d_size \div RelBytes),
                   data.d_size \div RelBytes, <<>>)
          ELSE RelasOfWords(data.d_buf, data.d_size \div RelaBytes)
    /\ pc' = "unpack"
    /\ UNCHANGED <<packed, elf, hist, unpackVars, idleVars>>

\* packer.UnpackRelocations(packed, &relocations)
Unpack ==
    /\ pc = "unpack"
    /\ relocations' = Packer_UnpackRelocations(packed, relocations)
    /\ pc' = "section_data"
    /\ UNCHANGED <<packed, elf, hist, unpackVars, idleVars>>

\* The choice of section_data.  For REL it points into rel_relocations,
\* which is destroyed at the end of its block, before section_data is used.
ChooseSectionData ==
    /\ pc = "section_data"
    /\ IF this.relocations_type_ = "RELA"
       THEN /\ section_data' = [dangling |-> FALSE, words |-> WordsOfRelas(relocations)]
            /\ pc' = "resize_relocations"
            /\ calls' = calls
       ELSE LET r == ConvertRelaVectorToRelVector(relocations) IN
            /\ section_data' = [dangling |-> TRUE, words |-> WordsOfRels(r.rel_vector)]
            /\ IF r.fatal THEN Aborts
               ELSE pc' = "resize_relocations" /\ calls' = calls
    /\ UNCHANGED <<packed, relocations, elf, hist, this, file, dynamics, idleVars>>

\* ResizeSection(elf_, relocations_section_, unpacked_bytes)
ResizeRelocations ==
    /\ pc = "resize_relocations"
    /\ LET new_size == UnpackedBytes(relocations, this.relocations_type_) IN
       /\ hist' = Append(hist, Call(this.relocations_section_, new_size))
       /\ \E r \in ResizeOutcomes(elf, this.relocations_section_, new_size) :
             /\ elf' = r.elf
             /\ IF r.fatal THEN Aborts
                ELSE pc' = "set_relocations" /\ calls' = calls
    /\ UNCHANGED <<packed, relocations, this, file, section_data, dynamics, idleVars>>

\* SetSectionData(relocations_section_, section_data, unpacked_bytes)
SetRelocations ==
    /\ pc = "set_relocations"
    /\ \E words \in IF section_data.dangling
                    THEN FreedMemory(section_data.words,
                                     elf.shdr[this.dynamic_section_].d_buf)
                    ELSE {section_data.words} :
          LET r == SetSectionData(elf, this.relocations_section_, words,
                                  UnpackedBytes(relocations, this.relocations_type_),
                                  NoGarbage)
          IN /\ elf' = r.elf
             /\ IF r.fatal THEN Aborts
                ELSE pc' = "dynamics" /\ calls' = calls
    /\ UNCHANGED <<packed, relocations, hist, this, file, section_data, dynamics, idleVars>>

\* The copy of .dynamic into `dynamics` and the removal of the three tags.
EraseDynamics ==
    /\ pc = "dynamics"
    /\ LET data == elf.shdr[this.dynamic_section_]
           r == EraseTags(DynsOfWords(ReadWords(data.d_buf,
                                                2 * (data.d_size \div DynBytes),
                                                NoGarbage),
                                      data.d_size \div DynBytes),
                          <<DT_RELRSZ, DT_RELR, DT_RELRENT>>)
       IN /\ dynamics' = r.dynamics
          /\ IF r.fatal THEN Aborts
             ELSE pc' = "resize_dynamic" /\ calls' = calls
    /\ UNCHANGED <<packed, relocations, elf, hist, this, file, section_data, idleVars>>

\* ResizeSection(elf_, dynamic_section_, dynamics_bytes)
ResizeDynamic ==
    /\ pc = "resize_dynamic"
    /\ LET new_size == Len(dynamics) * DynBytes IN
       /\ hist' = Append(hist, Call(this.dynamic_section_, new_size))
       /\ \E r \in ResizeOutcomes(elf, this.dynamic_section_, new_size) :
             /\ elf' = r.elf
             /\ IF r.fatal THEN Aborts
                ELSE pc' = "set_dynamic" /\ calls' = calls
    /\ UNCHANGED <<packed, relocations, this, file, section_data, dynamics, idleVars>>

\* SetSectionData(dynamic_section_, dynamics_data, dynamics_bytes)
SetDynamic ==
    /\ pc = "set_dynamic"
    /\ LET r == SetSectionData(elf, this.dynamic_section_, WordsOfDyns(dynamics),
                               Len(dynamics) * DynBytes, NoGarbage)
       IN /\ elf' = r.elf
          /\ IF r.fatal THEN Aborts
             ELSE pc' = "flush" /\ calls' = calls
    /\ UNCHANGED <<packed, relocations, hist, this, file, section_data, dynamics, idleVars>>

\* Flush() and `return true`: elf_update writes the image, elf_end releases
\* it, ftruncate cuts the file to the bytes written.  elf_update may fail
\* with the file written in part; CHECK(file_bytes > 0) then terminates.
Flush ==
    /\ pc = "flush"
    /\ \/ /\ file' = [file EXCEPT !.image = elf, !.updates = @ + 1,
                                  !.truncates = @ + 1]
          /\ this' = [this EXCEPT !.elf_ = 0]
          /\ elf' = <<>>
          /\ pc' = "idle"
          /\ Returns("true")
       \/ /\ \E written \in {file.image, elf} :
                file' = [file EXCEPT !.image = written, !.updates = @ + 1]
          /\ UNCHANGED <<this, elf>>
          /\ Aborts
    /\ UNCHANGED <<packed, relocations, hist, section_data, dynamics, idleVars>>

Next ==
    \/ LoadCall
    \/ UnpackRelocations
    \/ ReadRelocations
    \/ Unpack
    \/ ChooseSectionData
    \/ ResizeRelocations
    \/ SetRelocations
    \/ EraseDynamics
    \/ ResizeDynamic
    \/ SetDynamic
    \/ Flush

Spec == Init /\ [][Next]_vars

---------------------------------------------------------------------------
(* Claims about the unpack pipeline                                        *)

LastEntry == calls[Len(calls)]

\* The last call was UnpackRelocations, went through the whole pipeline
\* and returned true: file.image is what it committed, LastEntry.image what
\* the file held before.
Unpacked ==
    /\ Len(calls) > 0
    /\ LastEntry.op = "UnpackRelocations"
    /\ LastEntry.ret = "true"
    /\ LastEntry.loaded.relocations_section_ # 0

\* The records the packed section of the original file encodes.
Encoded(c) ==
    Packer_UnpackRelocations(c.image.shdr[c.loaded.relr_section_].d_buf, <<>>)

\* Records at the given offsets, of the relative type and with no addend,
\* as words of the shape.
RECURSIVE RelativeWords(_, _)
RelativeWords(shape, offsets) ==
    IF offsets = <<>> THEN <<>>
    ELSE (IF shape = "REL" THEN <<Head(offsets), R_ARM_RELATIVE>>
          ELSE <<Head(offsets), R_ARM_RELATIVE, 0>>)
         \o RelativeWords(shape, Tail(offsets))

\* C6: after a successful unpack of a file whose packed section encodes N
\* relative relocations, the relocation section holds exactly those N
\* records, each of the relative type and with a zero addend, in decode
\* order, and they take exactly N * record_size bytes.  The M whole records
\* the section held before the unpack are read as kept in front of them
\* (Load() only records a section that is not empty).
C6_UnpackedRecords ==
    Unpacked =>
        LET c == LastEntry
            shape == c.loaded.relocations_type_
            before == c.image.shdr[c.loaded.relocations_section_]
            after == file.image.shdr[c.loaded.relocations_section_]
            M == before.d_size \div RecordBytes(shape)
        IN /\ after.sh_size = (M + Len(Encoded(c))) * RecordBytes(shape)
           /\ after.d_size = after.sh_size
           /\ after.d_buf = SubSeq(before.d_buf, 1, M * (RecordBytes(shape) \div AddrBytes))
                               \o RelativeWords(shape, Offsets(Encoded(c)))

\* The entries of v whose index is not in S, in order.
Without(v, S) ==
    LET F[n \in 0..Len(v)] ==
            IF n = 0 THEN <<>>
            ELSE IF n \in S THEN F[n - 1] ELSE Append(F[n - 1], v[n])
    IN F[Len(v)]

\* The committed dynamic table is the original one without one DT_RELR,
\* one DT_RELRSZ and one DT_RELRENT entry, the values of the entries with a
\* tag of `grown` larger by the growth of the relocation section, every
\* other entry as it was.
CommittedTable(grown) ==
    LET c == LastEntry
        rel == c.loaded.relocations_section_
        dyn == c.loaded.dynamic_section_
        growth == file.image.shdr[rel].sh_size - c.image.shdr[rel].sh_size
        old == DynsOfWords(c.image.shdr[dyn].d_buf, Len(c.image.shdr[dyn].d_buf) \div 2)
        new == DynsOfWords(file.image.shdr[dyn].d_buf,
                           Len(file.image.shdr[dyn].d_buf) \div 2)
    IN /\ file.image.shdr[dyn].sh_size = Len(new) * DynBytes
       /\ \E i, j, k \in 1..Len(old) :
             /\ old[i].d_tag = DT_RELR
             /\ old[j].d_tag = DT_RELRSZ
             /\ old[k].d_tag = DT_RELRENT
             /\ new = [n \in 1..(Len(old) - 3) |->
                          LET e == Without(old, {i, j, k})[n] IN
                          IF e.d_tag \in grown
                          THEN [e EXCEPT !.d_val = AddW(e.d_val, growth)]
                          ELSE e]

\* C7 as stated: after a successful unpack the committed dynamic table is
\* the original one with exactly the three packed-relocation entries
\* removed, the other entries and the sentinel in their order and with
\* their values, except that DT_RELSZ / DT_RELASZ is larger by the growth
\* of the relocation section (the second ResizeSection leaves no trace).
C7_DynamicTable == Unpacked => CommittedTable({DT_RELSZ, DT_RELASZ})

\* C7 (amended): as C7, and the value of a DT_MIPS_RLD_MAP_REL entry is
\* larger by the growth of the relocation section as well.
C7_AmendedDynamicTable ==
    Unpacked => CommittedTable({DT_RELSZ, DT_RELASZ, DT_MIPS_RLD_MAP_REL})

\* A committed unpack of a file that carries DT_MIPS_RLD_MAP_REL and whose
\* relocation section grew.
C7_Witness ==
    /\ Unpacked
    /\ \E k \in 1..Len(LastEntry.image.shdr[LastEntry.loaded.dynamic_section_].d_buf) :
          /\ k % 2 = 1
          /\ LastEntry.image.shdr[LastEntry.loaded.dynamic_section_].d_buf[k]
                = DT_MIPS_RLD_MAP_REL
    /\ file.image.shdr[LastEntry.loaded.relocations_section_].sh_size
          > LastEntry.image.shdr[LastEntry.loaded.relocations_section_].sh_size

\* C9: once Load() has returned success, a later Load() on the image still
\* loaded returns success and changes none of elf_, relocations_section_,
\* relr_section_, dynamic_section_ and relocations_type_.  (Every Load(),
\* called directly or by UnpackRelocations, on an object that holds an
\* image.)
C9_LoadIdempotent ==
    \A n \in 1..Len(calls) :
        calls[n].before.elf_ # 0 =>
            /\ calls[n].load = "true"
            /\ calls[n].loaded = calls[n].before

\* Load() was called, returned success, and was called again on the image
\* it had loaded.
C9_Witness ==
    \E n \in 2..Len(calls) :
        /\ calls[n - 1].op = "Load"
        /\ calls[n - 1].before.elf_ = 0
        /\ calls[n - 1].ret = "true"
        /\ calls[n].op = "Load"
        /\ calls[n].before.elf_ # 0

\* What is wrong with a file, read off the file itself.
NotElf(E) == E.kind # "ELF_K_ELF"

NotSharedObject(E) == E.e_type # "ET_DYN"

EndiannessMismatch(E) == E.ei_data # "ELFDATA2LSB"

DynamicSegmentAbsentOrDuplicated(E) ==
    Cardinality({i \in 1..Len(E.phdr) : E.phdr[i].p_type = "PT_DYNAMIC"}) # 1

LacksDynamicSection(E) ==
    ~\E i \in 1..Len(E.phdr), k \in 1..Len(E.shdr) :
        /\ E.phdr[i].p_type = "PT_DYNAMIC"
        /\ E.shdr[k].sh_offset = E.phdr[i].p_offset

LacksRelrSection(E) == ~\E k \in 1..Len(E.shdr) : E.shdr[k].sh_type = "SHT_RELR"

AmbiguousShape(E) ==
    /\ \E k \in 1..Len(E.shdr) :
          E.shdr[k].name \in {".rel.dyn", ".rela.dyn"} /\ E.shdr[k].sh_size > 0
    /\ (\E k \in 1..Len(E.shdr) : E.shdr[k].sh_type = "SHT_REL")
          <=> (\E k \in 1..Len(E.shdr) : E.shdr[k].sh_type = "SHT_RELA")

OverAligned(E) == \E k \in 1..Len(E.shdr) : E.shdr[k].sh_addralign > kPageSize

\* The last call had to load the file, and its Load() did not succeed.
LoadFailed ==
    /\ Len(calls) > 0
    /\ LastEntry.before.elf_ = 0
    /\ LastEntry.load # "true"

\* The last call made no resize and no commit.
NothingResizedOrCommitted ==
    /\ Len(hist) = LastEntry.resizes
    /\ file.updates = LastEntry.updates
    /\ file.image = LastEntry.image

HasRelocationsSection(E) ==
    \E k \in 1..Len(E.shdr) :
        E.shdr[k].name \in {".rel.dyn", ".rela.dyn"} /\ E.shdr[k].sh_size > 0

\* The last call was UnpackRelocations on a file without such a section,
\* and its Load() succeeded.
NothingPacked ==
    /\ Len(calls) > 0
    /\ LastEntry.op = "UnpackRelocations"
    /\ LastEntry.load = "true"
    /\ ~HasRelocationsSection(LastEntry.image)

\* C11: when Load() succeeds and no non-empty .rel.dyn / .rela.dyn was
\* found, UnpackRelocations returns success at once: nothing is decoded,
\* ResizeSection and SetSectionData are not called, the image in memory is
\* the file as it was, and the file is neither written nor truncated.
C11_TrivialSuccess ==
    NothingPacked =>
        /\ LastEntry.ret = "true"
        /\ pc = "idle"
        /\ packed = <<>> /\ relocations = <<>> /\ dynamics = <<>>
        /\ NothingResizedOrCommitted
        /\ elf = LastEntry.image
        /\ file.updates = 0 /\ file.truncates = 0

\* Such a call has returned, on a file whose .rel.dyn / .rela.dyn is empty
\* and that does carry a packed section.
C11_Witness ==
    /\ NothingPacked
    /\ \E k \in 1..Len(LastEntry.image.shdr) :
          LastEntry.image.shdr[k].name \in {".rel.dyn", ".rela.dyn"}
    /\ LastEntry.ret = "true"
    /\ LastEntry.before.elf_ = 0
    /\ ~LacksRelrSection(LastEntry.image)

\* The step about to be taken may commit: the call in progress has decoded
\* into `relocations`, resized and rewritten the relocation section,
\* removed the three entries from `dynamics`, and resized and rewritten the
\* dynamic table.
CommitReady ==
    /\ pc = "flush"
    /\ LastEntry.op = "UnpackRelocations"
    /\ LET c == LastEntry
           rel == elf.shdr[this.relocations_section_]
           dyn == elf.shdr[this.dynamic_section_]
           old_rel == c.image.shdr[c.loaded.relocations_section_]
           old_dyn == c.image.shdr[c.loaded.dynamic_section_]
       IN /\ Len(relocations)
                = old_rel.d_size \div RecordBytes(this.relocations_type_)
                     + Len(Encoded(c))
          /\ Len(hist) = c.resizes + 2
          /\ rel.sh_size = UnpackedBytes(relocations, this.relocations_type_)
          /\ Len(rel.d_buf) * AddrBytes = rel.sh_size
          /\ Len(dynamics) = old_dyn.d_size \div DynBytes - 3
          /\ dyn.sh_size = Len(dynamics) * DynBytes
          /\ dyn.d_buf = WordsOfDyns(dynamics)

\* The step writes or truncates the file.
Commits ==
    \/ file'.image # file.image
    \/ file'.updates # file.updates
    \/ file'.truncates # file.truncates

\* C12: in every run (a call of UnpackRelocations) the file is written and
\* truncated at most once, and only by the commit step taken after the
\* decoding, the resize and rewrite of the relocation section, the removal
\* of the three dynamic entries and the resize and rewrite of the dynamic
\* table have completed; a run that ends in a load failure or terminates
\* before the commit step leaves the file as it was.
C12_CommitOnce ==
    /\ [](Len(calls) > 0 =>
             /\ file.updates <= LastEntry.updates + 1
             /\ file.truncates <= file.updates
             /\ file.updates = LastEntry.updates => file.image = LastEntry.image)
    /\ [][Commits =>
             /\ CommitReady
             /\ file'.updates = file.updates + 1
             /\ file'.truncates \in {file.truncates, file.truncates + 1}]_vars

\* A run has committed: the file was written and truncated once.
C12_Witness ==
    /\ Unpacked
    /\ file.updates = LastEntry.updates + 1
    /\ file.truncates = file.updates
    /\ file.image # LastEntry.image

---------------------------------------------------------------------------
(* Claims about the steps of ResizeSection                                 *)

\* The last call of ResizeSection in SpecResize returned.
LastCallCompleted == Len(hist) > 0 /\ pc = "ready"

\* What C13 says of one offset field: moved by hole_size (in the offset
\* type's arithmetic) if it was strictly beyond hole_start, else unchanged.
Shifted(before, after, call) ==
    after = IF before > HoleStart(call) THEN AddW(before, HoleSize(call))
            ELSE before

\* C13: in a ResizeSection call, with hole_start the section's file offset
\* and hole_size = new_size - old_size, e_phoff, e_shoff, every sh_offset
\* and every p_offset of a program header other than PT_GNU_STACK is moved
\* by exactly hole_size if it was strictly greater than hole_start and is
\* unchanged otherwise (the resized section's own sh_offset included); the
\* p_offset of a PT_GNU_STACK header is never changed.
C13_OffsetShift ==
    LastCallCompleted =>
        LET B == LastCall.before IN
        /\ Shifted(B.e_phoff, elf.e_phoff, LastCall)
        /\ Shifted(B.e_shoff, elf.e_shoff, LastCall)
        /\ Len(elf.shdr) = Len(B.shdr)
        /\ \A k \in 1..Len(B.shdr) :
              Shifted(B.shdr[k].sh_offset, elf.shdr[k].sh_offset, LastCall)
        /\ elf.shdr[LastCall.section].sh_offset = B.shdr[LastCall.section].sh_offset
        /\ Len(elf.phdr) = Len(B.phdr)
        /\ \A i \in 1..Len(B.phdr) :
              IF B.phdr[i].p_type = "PT_GNU_STACK"
              THEN elf.phdr[i].p_offset = B.phdr[i].p_offset
              ELSE Shifted(B.phdr[i].p_offset, elf.phdr[i].p_offset, LastCall)

\* A resize has completed on an image with offsets on both sides of the
\* hole start, a section at the hole start, and a PT_GNU_STACK header whose
\* p_offset lies beyond it.
C13_Witness ==
    /\ LastCallResized
    /\ LastCall.before.e_phoff < HoleStart(LastCall)
    /\ LastCall.before.e_shoff > HoleStart(LastCall)
    /\ elf.e_shoff # LastCall.before.e_shoff
    /\ \E i \in 1..Len(LastCall.before.phdr) :
          /\ LastCall.before.phdr[i].p_type = "PT_GNU_STACK"
          /\ LastCall.before.phdr[i].p_offset > HoleStart(LastCall)

\* The PT_LOAD segments whose half-open file range contains the offset.
Holders(E, off) ==
    {i \in 1..Len(E.phdr) :
        E.phdr[i].p_type = "PT_LOAD" /\ ContainsOffset(E.phdr[i], off)}

\* C14: the program header whose p_filesz and p_memsz ResizeSection grows
\* by hole_size is a PT_LOAD whose half-open file range
\* [p_offset, p_offset + p_filesz) contains hole_start; if no PT_LOAD range
\* contains hole_start the call terminates fatally and adjusts no segment's
\* sizes.
C14_ContainingSegment ==
    (/\ Len(hist) > 0
     /\ pc \in {"ready", "fatal"}
     /\ LastCall.before.shdr[LastCall.section].sh_size # LastCall.new_size)
    => LET B == LastCall.before
           holders == Holders(B, HoleStart(LastCall))
       IN IF holders = {}
          THEN pc = "fatal" /\ ResizedSegments(B, elf) = {}
          ELSE pc = "ready" =>
                  \E i \in holders :
                     /\ ResizedSegments(B, elf) = {i}
                     /\ elf.phdr[i].p_filesz = AddW(B.phdr[i].p_filesz, HoleSize(LastCall))
                     /\ elf.phdr[i].p_memsz = AddW(B.phdr[i].p_memsz, HoleSize(LastCall))

\* C15: the dynamic-table rewrite inside ResizeSection adds hole_size to the
\* value of every DT_RELSZ / DT_RELASZ entry and of every
\* DT_MIPS_RLD_MAP_REL entry and leaves every other entry's tag and value
\* and the order of the entries unchanged; address-valued entries are not
\* modified.  The number of entries is read as the number the section's
\* size stands for: entries cut off by a smaller size are gone, and a
\* larger size adds nothing but null entries.
C15_DynamicRewrite ==
    (LastCallResized /\ GetDynamicSection(elf) # 0) =>
        LET d == GetDynamicSection(elf)
            old == LastCall.before.shdr[d].d_buf
            new == elf.shdr[d].d_buf
        IN /\ Len(new) * AddrBytes = elf.shdr[d].sh_size
           /\ \A k \in 1..Len(new) :
                 IF k > Len(old) THEN new[k] = 0
                 ELSE IF k % 2 = 1 THEN new[k] = old[k]
                 ELSE IF old[k - 1] \in {DT_RELSZ, DT_RELASZ, DT_MIPS_RLD_MAP_REL}
                      THEN new[k] = AddW(old[k], HoleSize(LastCall))
                      ELSE new[k] = old[k]

\* The section Load() recorded as the dynamic section of the image the
\* calls started from.
RecordedDynamicSection == FoundDynamicSection(hist[1].before)

\* C17: after any sequence of completed ResizeSection calls, the PT_DYNAMIC
\* segment's p_offset equals the sh_offset of the dynamic section Load()
\* recorded, and GetDynamicSection returns that same section.
C17_DynamicSectionStable ==
    LastCallCompleted =>
        /\ elf.phdr[LastDynamicProgramHeader(elf)].p_offset
              = elf.shdr[RecordedDynamicSection].sh_offset
        /\ GetDynamicSection(elf) = RecordedDynamicSection

---------------------------------------------------------------------------
(* Claims about the shape conversion inside the pipeline                   *)

\* The pipeline is about to narrow `relocations` to plain records.
Narrowing == pc = "section_data" /\ this.relocations_type_ = "REL"

\* C18: in the unpack pipeline, narrowing is only attempted when every
\* record has addend zero (for the plain shape every record came from
\* widening or from the decoder), so the non-zero-addend fatal check of
\* the narrowing never ends a run of UnpackRelocations.
C18_NarrowingNeverFatal ==
    /\ [](Narrowing => \A k \in 1..Len(relocations) : relocations[k].r_addend = 0)
    /\ [][Narrowing => pc' = "resize_relocations"]_vars

C18_Witness ==
    /\ pc = "resize_relocations"
    /\ this.relocations_type_ = "REL"
    /\ section_data.dangling
    /\ \E k \in 1..Len(relocations) : relocations[k].r_info # R_ARM_RELATIVE
    /\ \E k \in 1..Len(relocations) :
          relocations[k].r_info = R_ARM_RELATIVE /\ relocations[k].r_offset = 8
    /\ Len(section_data.words) * AddrBytes = Len(relocations) * RelBytes

=============================================================================
